---------------------------- MODULE Spec2Model ----------------------------
(***************************************************************************)
(* Model of the machine-monitoring backend: the registry and latest-value  *)
(* store (services/machine_service.py), the synthetic data generator and   *)
(* status classifier (services/data_generator.py), the anomaly scorer and  *)
(* alert builder (services/anomaly_detector.py) and the request handlers   *)
(* that orchestrate them (api/machines.py).                                *)
(*                                                                         *)
(* Numbers.  The program computes with floats; the model computes the same *)
(* expressions exactly, in fixed point:                                    *)
(*   - a metric value or range bound x is the integer x * Unit;            *)
(*   - a per-metric score s is the integer s * MetricDen;                  *)
(*   - an anomaly score s is the integer s * ScoreDen;                     *)
(*   - a deviation d is the integer d * LcmSize.                           *)
(* Every range size of the registry divides LcmSize, so all the divisions  *)
(* of the code are exact in these units.                                   *)
(* Python's None is the empty sequence and a present value x is <<x>>.     *)
(***************************************************************************)
EXTENDS Integers, Sequences, FiniteSets, TLC

VARIABLES
    time_offset,     \* DataGenerator.time_offset
    machine_data,    \* MachineService.machine_data: machine id -> MachineData
    lastGenerated,   \* history: machine id -> the reading its last generation cycle produced
    response,        \* what the last request handler returned or raised
    call             \* a direct call of a pure function: its arguments and result

vars == <<time_offset, machine_data, lastGenerated, response, call>>

-----------------------------------------------------------------------------
(* Bounds of the model *)

\* the generator's counter is explored up to MaxT generation calls
MaxT == 3
\* directly supplied metric values are 0, 20, ..., 20 * MaxK
MaxK == 5

-----------------------------------------------------------------------------
(* Units *)

Unit == 2 * 10000
\* least common multiple of the registry's range sizes (80), in value units
LcmSize == 80 * Unit
MetricDen == 10 * LcmSize
ScoreDen == 5 * MetricDen

None == <<>>
Some(x) == <<x>>

Abs(x) == IF x < 0 THEN -x ELSE x
Min2(a, b) == IF b < a THEN b ELSE a

-----------------------------------------------------------------------------
(* models/machine.py *)

\* the order in which the scorer and the alert builder fill their dicts
Metrics == <<"temperature", "pressure", "vibration", "rpm", "power_consumption">>

MetricSet == {Metrics[i] : i \in 1..Len(Metrics)}

Range(lo, hi) == [min |-> lo * Unit, max |-> hi * Unit]

\* MachineService.machines after _load_machine_configs: two configured machines.
\* The drift of generate_realistic_data takes the pressure of m2, whose range is
\* narrow for its level, past its maximum; the temperature range of m2 starts
\* at 0.
Machines ==
    [m1 |-> [id |-> "m1", type |-> "injection_molding",
             normal_ranges |-> [temperature |-> Range(60, 80),
                                pressure |-> Range(20, 60),
                                vibration |-> Range(20, 100),
                                rpm |-> Range(40, 80),
                                power_consumption |-> Range(40, 80)]],
     m2 |-> [id |-> "m2", type |-> "cnc_mill",
             normal_ranges |-> [temperature |-> Range(0, 80),
                                pressure |-> Range(180, 200),
                                vibration |-> Range(0, 40),
                                rpm |-> Range(20, 60),
                                power_consumption |-> Range(40, 80)]]]

MachineIds == DOMAIN Machines

\* identifiers a request may name: the configured ones and one that is not
RequestIds == MachineIds \cup {"unknown"}

\* MachineService.get_all_machines: the dict's values, in insertion order
service_get_all_machines == <<Machines["m1"], Machines["m2"]>>

\* the mutant of service_get_machine: a missing key yields the first machine
service_get_machine_default(machine_id) ==
    IF machine_id \in DOMAIN Machines THEN Some(Machines[machine_id])
    ELSE Some(Machines["m1"])

\* MachineService.get_machine: dict.get, None for a missing key
service_get_machine(machine_id) ==
    IF machine_id \in DOMAIN Machines THEN Some(Machines[machine_id]) ELSE None

MachineData(machine_id, timestamp, temperature, pressure, vibration, rpm, power_consumption, status) ==
    [machine_id |-> machine_id, timestamp |-> timestamp,
     temperature |-> temperature, pressure |-> pressure,
     vibration |-> vibration, rpm |-> rpm,
     power_consumption |-> power_consumption, status |-> status,
     anomaly_score |-> None]

-----------------------------------------------------------------------------
(* services/data_generator.py: DataGenerator._determine_status *)

\* x < bound * (tenths / 100), both sides multiplied by 100
Below(x, bound, pct) == x * 100 < bound * pct
Above(x, bound, pct) == x * 100 > bound * pct

critical_conditions(ranges, temp, pressure, vibration, rpm, power) ==
    <<Below(temp, ranges.temperature.min, 90) \/ Above(temp, ranges.temperature.max, 110),
      Below(pressure, ranges.pressure.min, 80) \/ Above(pressure, ranges.pressure.max, 120),
      Above(vibration, ranges.vibration.max, 130),
      Below(rpm, ranges.rpm.min, 80) \/ Above(rpm, ranges.rpm.max, 120),
      Below(power, ranges.power_consumption.min, 70)
          \/ Above(power, ranges.power_consumption.max, 130)>>

warning_conditions(ranges, temp, pressure, vibration, rpm, power) ==
    <<Below(temp, ranges.temperature.min, 95) \/ Above(temp, ranges.temperature.max, 105),
      Below(pressure, ranges.pressure.min, 90) \/ Above(pressure, ranges.pressure.max, 110),
      Above(vibration, ranges.vibration.max, 110),
      Below(rpm, ranges.rpm.min, 90) \/ Above(rpm, ranges.rpm.max, 110),
      Below(power, ranges.power_consumption.min, 85)
          \/ Above(power, ranges.power_consumption.max, 115)>>

any(conds) == \E i \in 1..Len(conds) : conds[i]

\* the mutant of _determine_status: the warning check placed before the critical one
determine_status_warning_first(machine, temp, pressure, vibration, rpm, power) ==
    LET ranges == machine.normal_ranges IN
    IF any(warning_conditions(ranges, temp, pressure, vibration, rpm, power))
    THEN "warning"
    ELSE IF any(critical_conditions(ranges, temp, pressure, vibration, rpm, power))
    THEN "critical"
    ELSE "normal"

determine_status(machine, temp, pressure, vibration, rpm, power) ==
    LET ranges == machine.normal_ranges IN
    IF any(critical_conditions(ranges, temp, pressure, vibration, rpm, power))
    THEN "critical"
    ELSE IF any(warning_conditions(ranges, temp, pressure, vibration, rpm, power))
    THEN "warning"
    ELSE "normal"

-----------------------------------------------------------------------------
(* services/anomaly_detector.py: AnomalyDetector.calculate_anomaly_score *)

\* the mutant of metric_score: the out-of-range score is not capped at 1.0
metric_score_uncapped(value, range_obj) ==
    LET range_size == range_obj.max - range_obj.min IN
    IF range_obj.min <= value /\ value <= range_obj.max
    THEN 3 * Abs(2 * value - (range_obj.max + range_obj.min)) * (LcmSize \div range_size)
    ELSE LET excess == IF value < range_obj.min THEN range_obj.min - value
                       ELSE value - range_obj.max
         IN  MetricDen \div 2 + excess * (MetricDen \div range_size)

\* the body of the loop over the five metrics; the result is score * MetricDen:
\*   in range:  (|value - center| / (range_size / 2)) * 0.3
\*              = 3 * |2 * value - (max + min)| / (10 * range_size)
\*   otherwise: min(1.0, 0.5 + excess / range_size)
metric_score(value, range_obj) ==
    LET range_size == range_obj.max - range_obj.min IN
    IF range_obj.min <= value /\ value <= range_obj.max
    THEN 3 * Abs(2 * value - (range_obj.max + range_obj.min)) * (LcmSize \div range_size)
    ELSE LET excess == IF value < range_obj.min THEN range_obj.min - value
                       ELSE value - range_obj.max
         IN  Min2(MetricDen, MetricDen \div 2 + excess * (MetricDen \div range_size))

RECURSIVE SumSeq(_)
SumSeq(s) == IF s = <<>> THEN 0 ELSE s[1] + SumSeq(Tail(s))

\* the mutant of calculate_anomaly_score: the largest metric score, not the mean
calculate_anomaly_score_worst(machine, data) ==
    LET ranges == machine.normal_ranges
        scores == [i \in 1..Len(Metrics) |->
                       metric_score(data[Metrics[i]], ranges[Metrics[i]])]
    IN  5 * scores[CHOOSE i \in 1..Len(scores) :
                       \A j \in 1..Len(scores) : scores[j] <= scores[i]]

\* sum(scores) / len(scores), the result is score * ScoreDen (ScoreDen = 5 * MetricDen)
calculate_anomaly_score(machine, data) ==
    LET ranges == machine.normal_ranges
        scores == [i \in 1..Len(Metrics) |->
                       metric_score(data[Metrics[i]], ranges[Metrics[i]])]
    IN  SumSeq(scores) * (ScoreDen \div (Len(scores) * MetricDen))


-----------------------------------------------------------------------------
(* services/anomaly_detector.py: AnomalyDetector._calculate_deviation *)

\* the result is deviation * LcmSize
calculate_deviation(value, range_obj) ==
    IF range_obj.min <= value /\ value <= range_obj.max
    THEN 0
    ELSE IF value < range_obj.min
    THEN (range_obj.min - value) * (LcmSize \div (range_obj.max - range_obj.min))
    ELSE (value - range_obj.max) * (LcmSize \div (range_obj.max - range_obj.min))

-----------------------------------------------------------------------------
(* services/anomaly_detector.py: AnomalyDetector.create_anomaly_alert *)

\* the mutant of max_item: on equal keys the later item replaces the earlier one
RECURSIVE max_item_last(_, _, _)
max_item_last(items, i, best) ==
    IF i > Len(items) THEN items[best]
    ELSE max_item_last(items, i + 1, IF items[i][2] >= items[best][2] THEN i ELSE best)

\* max(items, key=lambda x: x[1]) from position i on, items[best] being the
\* largest so far: a later item replaces it only when its key is strictly larger
RECURSIVE max_item(_, _, _)
max_item(items, i, best) ==
    IF i > Len(items) THEN items[best]
    ELSE max_item(items, i + 1, IF items[i][2] > items[best][2] THEN i ELSE best)

\* the mutant of severity_of: the medium bucket starts above 0.6, not at it
severity_of_strict(anomaly_score) ==
    IF anomaly_score >= 8 * (ScoreDen \div 10) THEN "high"
    ELSE IF anomaly_score > 6 * (ScoreDen \div 10) THEN "medium"
    ELSE "low"

\* "Determine severity": >= 0.8 high, >= 0.6 medium, else low
severity_of(anomaly_score) ==
    IF anomaly_score >= 8 * (ScoreDen \div 10) THEN "high"
    ELSE IF anomaly_score >= 6 * (ScoreDen \div 10) THEN "medium"
    ELSE "low"

\* the mutant of below_alert_threshold: the boundary 0.3 is rejected too
below_alert_threshold_inclusive(anomaly_score) == anomaly_score <= 3 * (ScoreDen \div 10)

\* anomaly_score < 0.3
below_alert_threshold(anomaly_score) == anomaly_score < 3 * (ScoreDen \div 10)

\* The alert's id (a fresh uuid4), its timestamp (the wall clock) and its message
\* (a formatting of metric, value and range) are not modelled; expected_range,
\* the text "<min>-<max>", is the pair of the two bounds.
create_anomaly_alert(machine, data, anomaly_score, ai_analysis) ==
    IF below_alert_threshold(anomaly_score) THEN None
    ELSE LET ranges == machine.normal_ranges
             deviations == [i \in 1..Len(Metrics) |->
                 <<Metrics[i], calculate_deviation(data[Metrics[i]], ranges[Metrics[i]])>>]
             worst_metric == max_item(deviations, 2, 1)
             metric_name == worst_metric[1]
             range_obj == ranges[metric_name]
         IN  Some([machine_id |-> machine.id,
                   severity |-> severity_of(anomaly_score),
                   metric |-> metric_name,
                   value |-> data[metric_name],
                   expected_range |-> <<range_obj.min, range_obj.max>>,
                   resolved |-> FALSE,
                   ai_analysis |-> ai_analysis])

-----------------------------------------------------------------------------
(* Direct calls of the pure functions: any machine of the registry, any five *)
(* metric values of the grid, any score of ScoreInputs.                      *)

GridValues == {20 * k * Unit : k \in 0..MaxK}

\* scores handed to the alert builder: 0, 0.29999, 0.3, 0.59999, 0.6, 0.79999, 0.8, 1
ScoreInputs ==
    {k * (ScoreDen \div 100000) :
        k \in {0, 29999, 30000, 59999, 60000, 79999, 80000, 100000}}

NoCall == [fn |-> "none"]

NoResponse == [op |-> "none"]

EmptyStore == [id \in {} |-> None]

CallArgs ==
    {[fn |-> "args", machine_id |-> m,
      data |-> MachineData(m, 0, t, p, v, r, w, "normal")] :
        m \in MachineIds, t \in GridValues, p \in GridValues, v \in GridValues,
        r \in GridValues, w \in GridValues}

ServiceIdle ==
    /\ time_offset = 0
    /\ machine_data = EmptyStore
    /\ lastGenerated = EmptyStore
    /\ response = NoResponse

InitFn ==
    /\ ServiceIdle
    /\ call \in CallArgs

CallStatus ==
    /\ call.fn = "args"
    /\ call' = [fn |-> "determine_status", machine_id |-> call.machine_id,
                data |-> call.data,
                result |-> determine_status(Machines[call.machine_id],
                               call.data.temperature, call.data.pressure,
                               call.data.vibration, call.data.rpm,
                               call.data.power_consumption)]
    /\ UNCHANGED <<time_offset, machine_data, lastGenerated, response>>

CallScore ==
    /\ call.fn = "args"
    /\ call' = [fn |-> "calculate_anomaly_score", machine_id |-> call.machine_id,
                data |-> call.data,
                result |-> calculate_anomaly_score(Machines[call.machine_id], call.data)]
    /\ UNCHANGED <<time_offset, machine_data, lastGenerated, response>>

CallAlert(anomaly_score) ==
    /\ call.fn = "args"
    /\ call' = [fn |-> "create_anomaly_alert", machine_id |-> call.machine_id,
                data |-> call.data, anomaly_score |-> anomaly_score,
                result |-> create_anomaly_alert(Machines[call.machine_id], call.data,
                                                anomaly_score, None)]
    /\ UNCHANGED <<time_offset, machine_data, lastGenerated, response>>

\* the alert builder called with the scorer's result for the same reading
CallScoreThenAlert ==
    CallAlert(calculate_anomaly_score(Machines[call.machine_id], call.data))

NextFn ==
    \/ CallStatus
    \/ CallScore
    \/ \E s \in ScoreInputs : CallAlert(s)
    \/ CallScoreThenAlert

SpecFn == InitFn /\ [][NextFn]_vars

-----------------------------------------------------------------------------
(* services/data_generator.py: DataGenerator.generate_realistic_data *)

\* math.sin(time_offset * 0.1) * 0.1 in thousandths, rounded to the nearest one
TimeFactorTable == <<10, 20, 30, 39, 48, 56, 64, 72, 78, 84, 89, 93>>

time_factor(t) == TimeFactorTable[t]

\* random.uniform(-0.05, 0.05) in ten-thousandths.  The noise only scales the
\* drifted values, which stay inside their ranges for every noise of the
\* interval; one end of the interval stands for it.
NoiseFactors == {500}

AnomalyTypes == {"temperature", "pressure", "vibration", "rpm", "power"}

\* What the random source yields during one call: the noise; whether
\* random.random() < 0.8; if so the metric random.choice picks; and, for every
\* metric but vibration, which of the two extreme values the second
\* random.choice picks.  A draw the call does not make is recorded as its
\* first alternative.
RandomDraws ==
    {rnd \in [noise_factor : NoiseFactors, anomaly : BOOLEAN,
              anomaly_type : AnomalyTypes, high : BOOLEAN] :
        /\ ~rnd.anomaly => (rnd.anomaly_type = "temperature" /\ ~rnd.high)
        /\ rnd.anomaly_type = "vibration" => rnd.high}

\* base + (base * time_factor * weight) + (base * noise_factor), base = (min + max) / 2;
\* weight10 is the weight in tenths, the result is in value units
drifted(range_obj, t, weight10, noise_factor) ==
    ((range_obj.min + range_obj.max) \div Unit)
        * (10000 + time_factor(t) * weight10 + noise_factor)

\* bound * (tenths / 10)
Times(bound, tenths) == (bound * tenths) \div 10

\* the mutant of injected: the low extreme is min * 1.5, which may lie in range
injected_in_range(range_obj, high, low10, high10) ==
    IF high THEN Times(range_obj.max, high10) ELSE Times(range_obj.min, 15)

\* random.choice([min * low, max * high])
injected(range_obj, high, low10, high10) ==
    IF high THEN Times(range_obj.max, high10) ELSE Times(range_obj.min, low10)

\* t is time_offset after "self.time_offset += 1"; the reading's timestamp,
\* datetime.now(), is the logical time t
generate_realistic_data(machine, t, rnd) ==
    LET ranges == machine.normal_ranges
        hit(type) == rnd.anomaly /\ rnd.anomaly_type = type
        reading(temperature, pressure, vibration, rpm, power_consumption) ==
            MachineData(machine.id, t, temperature, pressure, vibration, rpm,
                        power_consumption,
                        determine_status(machine, temperature, pressure, vibration,
                                         rpm, power_consumption))
    IN  reading(
            IF hit("temperature") THEN injected(ranges.temperature, rnd.high, 5, 16)
            ELSE drifted(ranges.temperature, t, 10, rnd.noise_factor),
            IF hit("pressure") THEN injected(ranges.pressure, rnd.high, 3, 20)
            ELSE drifted(ranges.pressure, t, 5, rnd.noise_factor),
            IF hit("vibration") THEN Times(ranges.vibration.max, 30)
            ELSE drifted(ranges.vibration, t, 3, rnd.noise_factor),
            IF hit("rpm") THEN injected(ranges.rpm, rnd.high, 2, 20)
            ELSE drifted(ranges.rpm, t, 2, rnd.noise_factor),
            IF hit("power") THEN injected(ranges.power_consumption, rnd.high, 1, 25)
            ELSE drifted(ranges.power_consumption, t, 4, rnd.noise_factor))

-----------------------------------------------------------------------------
(* services/machine_service.py: the latest-value store *)

\* the mutant of update_machine_data: an existing entry is kept (dict.setdefault)
update_machine_data_keep(store, machine_id, data) ==
    [k \in DOMAIN store \cup {machine_id} |->
        IF k \in DOMAIN store THEN store[k] ELSE data]

\* self.machine_data[machine_id] = data
update_machine_data(store, machine_id, data) ==
    [k \in DOMAIN store \cup {machine_id} |-> IF k = machine_id THEN data ELSE store[k]]

\* MachineService.get_machine_data: dict.get, None for a missing key
service_get_machine_data(store, machine_id) ==
    IF machine_id \in DOMAIN store THEN Some(store[machine_id]) ELSE None

MachineDataResponse(machine, data) ==
    [machine_id |-> machine.id, type |-> machine.type, status |-> data.status,
     data |-> [m \in MetricSet |-> data[m]],
     anomaly_score |-> data.anomaly_score, last_updated |-> data.timestamp]

\* MachineService.get_all_machine_data: one response per machine that has data
RECURSIVE get_all_machine_data(_, _)
get_all_machine_data(machines, store) ==
    IF machines = <<>> THEN <<>>
    ELSE LET machine == Head(machines)
             rest == get_all_machine_data(Tail(machines), store)
         IN  IF machine.id \in DOMAIN store
             THEN <<MachineDataResponse(machine, store[machine.id])>> \o rest
             ELSE rest

-----------------------------------------------------------------------------
(* services/anomaly_detector.py: AnomalyDetector.analyze_anomaly_with_ai *)

\* what the single chat-completion call does: it returns text, returns empty
\* text, raises (a timeout, a refused key), or returns a message without content
LlmSuccesses == {"text", "empty"}
LlmFailures == {"api_error", "null_content"}
LlmOutcomes == LlmSuccesses \cup LlmFailures

\* f"{anomaly_score:.2f}": the score in hundredths, rounded half to even
Format2f(anomaly_score) ==
    LET h == ScoreDen \div 100
        q == anomaly_score \div h
        r == anomaly_score % h
    IN  IF 2 * r > h \/ (2 * r = h /\ q % 2 = 1) THEN q + 1 ELSE q

fallback_text(anomaly_score) == [kind |-> "fallback", score |-> Format2f(anomaly_score)]

\* the mutant of analyze_anomaly_with_ai: the exception handler is missing
analyze_anomaly_with_ai_uncaught(machine, data, anomaly_score, llm) ==
    IF below_alert_threshold(anomaly_score)
    THEN [raised |-> FALSE, value |-> None, llm_calls |-> 0, outcome |-> "not_called"]
    ELSE IF llm \in LlmSuccesses
    THEN [raised |-> FALSE, value |-> Some([kind |-> "llm", text |-> llm]),
          llm_calls |-> 1, outcome |-> llm]
    ELSE [raised |-> TRUE, value |-> None, llm_calls |-> 1, outcome |-> llm]

\* value is what the coroutine returns and raised whether an exception leaves
\* it; llm_calls counts the calls of client.chat.completions.create and outcome
\* records what the service did ("not_called" below the threshold)
analyze_anomaly_with_ai(machine, data, anomaly_score, llm) ==
    IF below_alert_threshold(anomaly_score)
    THEN [raised |-> FALSE, value |-> None, llm_calls |-> 0, outcome |-> "not_called"]
    ELSE IF llm \in LlmSuccesses
    THEN [raised |-> FALSE, value |-> Some([kind |-> "llm", text |-> llm]),
          llm_calls |-> 1, outcome |-> llm]
    ELSE [raised |-> FALSE, value |-> Some(fallback_text(anomaly_score)),
          llm_calls |-> 1, outcome |-> llm]

\* "if ai_analysis:": a present, non-empty text
truthy(ai_analysis) ==
    /\ ai_analysis # None
    /\ ~(ai_analysis[1].kind = "llm" /\ ai_analysis[1].text = "empty")

\* LLMService.format_response_for_display: a dict holding the text it was given
format_response_for_display(content) == [formatted |-> TRUE, content |-> content]

-----------------------------------------------------------------------------
(* api/machines.py: the request handlers.  A handler runs to its end without *)
(* yielding to the event loop, so each one is a single step.                 *)

\* raise HTTPException(status_code=404, ...)
NotFound(op, machine_id, detail) ==
    [op |-> op, status |-> 404, machine_id |-> machine_id, detail |-> detail]

\* the mutant of generation_cycle: the reading is stored as generated, without
\* "data.anomaly_score = anomaly_score"
generation_cycle_unscored(machine, t, store, rnd) ==
    LET stored(data) ==
            [time_offset |-> t + 1,
             machine_data |-> update_machine_data(store, machine.id, data),
             data |-> data]
    IN  stored(generate_realistic_data(machine, t + 1, rnd))

\* the mutant of generation_cycle: the incremented counter is used for the
\* reading but not written back to the generator
generation_cycle_frozen(machine, t, store, rnd) ==
    LET stored(data) ==
            [time_offset |-> t,
             machine_data |-> update_machine_data(store, machine.id, data),
             data |-> data]
        scored(data) ==
            stored([data EXCEPT
                       !.anomaly_score = Some(calculate_anomaly_score(machine, data))])
    IN  scored(generate_realistic_data(machine, t + 1, rnd))

\* generation, scoring and storing of one reading, as both data handlers do it:
\* the counter after the call, the store after the call and the scored reading
generation_cycle(machine, t, store, rnd) ==
    LET stored(data) ==
            [time_offset |-> t + 1,
             machine_data |-> update_machine_data(store, machine.id, data),
             data |-> data]
        scored(data) ==
            stored([data EXCEPT
                       !.anomaly_score = Some(calculate_anomaly_score(machine, data))])
    IN  scored(generate_realistic_data(machine, t + 1, rnd))

\* the loop of get_current_machine_data over the machines left, rnds[i] being
\* the random draws of the i-th generation call.  The responses of the two data
\* handlers carry the draws of their generation calls in "draws": history, not
\* part of the body
RECURSIVE current_data_loop(_, _, _, _, _)
current_data_loop(machines, rnds, t, store, generated) ==
    IF machines = <<>>
    THEN [time_offset |-> t, machine_data |-> store, generated |-> generated]
    ELSE LET rest(cycle) ==
                 current_data_loop(Tail(machines), Tail(rnds), cycle.time_offset,
                                   cycle.machine_data,
                                   [k \in DOMAIN generated \cup {Head(machines).id} |->
                                       IF k = Head(machines).id THEN cycle.data
                                       ELSE generated[k]])
         IN  rest(generation_cycle(Head(machines), t, store, Head(rnds)))

\* GET /machines/{machine_id}
get_machine(machine_id) ==
    LET machine == service_get_machine(machine_id) IN
    /\ response' = IF machine = None
                   THEN NotFound("get_machine", machine_id, "Machine not found")
                   ELSE [op |-> "get_machine", status |-> 200,
                         machine_id |-> machine_id, machine |-> machine[1]]
    /\ UNCHANGED <<time_offset, machine_data, lastGenerated, call>>

\* GET /machines/data/current
get_current_machine_data(rnds) ==
    /\ time_offset + Len(service_get_all_machines) <= MaxT
    /\ \E loop \in {current_data_loop(service_get_all_machines, rnds, time_offset,
                                      machine_data, lastGenerated)} :
           /\ time_offset' = loop.time_offset
           /\ machine_data' = loop.machine_data
           /\ lastGenerated' = loop.generated
           /\ response' = [op |-> "get_current_machine_data", status |-> 200,
                           body |-> get_all_machine_data(service_get_all_machines,
                                                         loop.machine_data),
                           draws |-> rnds]
    /\ UNCHANGED call

\* GET /machines/{machine_id}/data
get_machine_data(machine_id, rnd) ==
    LET machine == service_get_machine(machine_id) IN
    IF machine = None
    THEN /\ response' = NotFound("get_machine_data", machine_id, "Machine not found")
         /\ UNCHANGED <<time_offset, machine_data, lastGenerated, call>>
    ELSE /\ time_offset < MaxT
         /\ \E cycle \in {generation_cycle(machine[1], time_offset, machine_data, rnd)} :
                /\ time_offset' = cycle.time_offset
                /\ machine_data' = cycle.machine_data
                /\ lastGenerated' =
                       [k \in DOMAIN lastGenerated \cup {machine_id} |->
                           IF k = machine_id THEN cycle.data ELSE lastGenerated[k]]
                /\ response' = [op |-> "get_machine_data", status |-> 200,
                                machine_id |-> machine_id,
                                body |-> MachineDataResponse(machine[1], cycle.data),
                                draws |-> <<rnd>>]
         /\ UNCHANGED call

\* the response of analyze once the analysis came back (or raised) and the
\* alert was built; llm_calls and llm_outcome are history, not part of the body
analyze_response(machine_id, data, ai, alert) ==
    IF ai.raised
    THEN [op |-> "analyze", status |-> 500, machine_id |-> machine_id,
          llm_calls |-> ai.llm_calls, llm_outcome |-> ai.outcome]
    ELSE [op |-> "analyze", status |-> 200, machine_id |-> machine_id,
          anomaly_score |-> data.anomaly_score[1],
          ai_analysis |-> ai.value,
          formatted_analysis |-> IF truthy(ai.value)
                                 THEN Some(format_response_for_display(ai.value[1]))
                                 ELSE None,
          alert_created |-> alert # None, alert |-> alert,
          llm_calls |-> ai.llm_calls, llm_outcome |-> ai.outcome]

\* the mutant of analyze_machine_anomaly: it runs a generation cycle first, as
\* get_machine_data does, and analyzes the fresh reading
analyze_machine_anomaly_regenerating(machine_id, llm) ==
    LET machine == service_get_machine(machine_id) IN
    IF machine = None
    THEN /\ response' = NotFound("analyze", machine_id, "Machine not found")
         /\ UNCHANGED <<time_offset, machine_data, lastGenerated, call>>
    ELSE /\ time_offset < MaxT
         /\ \E rnd \in RandomDraws :
            \E cycle \in {generation_cycle(machine[1], time_offset, machine_data, rnd)} :
            \E ai \in {analyze_anomaly_with_ai(machine[1], cycle.data,
                                               cycle.data.anomaly_score[1], llm)} :
            \E alert \in {create_anomaly_alert(machine[1], cycle.data,
                                               cycle.data.anomaly_score[1], ai.value)} :
                /\ time_offset' = cycle.time_offset
                /\ machine_data' = cycle.machine_data
                /\ response' = analyze_response(machine_id, cycle.data, ai, alert)
         /\ UNCHANGED <<lastGenerated, call>>

\* POST /machines/{machine_id}/analyze; llm is what the narrative service does
\* if it is called
analyze_machine_anomaly(machine_id, llm) ==
    LET machine == service_get_machine(machine_id)
        stored == service_get_machine_data(machine_data, machine_id)
    IN
    IF machine = None
    THEN /\ response' = NotFound("analyze", machine_id, "Machine not found")
         /\ UNCHANGED <<time_offset, machine_data, lastGenerated, call>>
    ELSE IF stored = None
    THEN /\ response' = NotFound("analyze", machine_id,
                                 "No current data available for machine")
         /\ UNCHANGED <<time_offset, machine_data, lastGenerated, call>>
    ELSE \* "if data.anomaly_score is None": the stored object itself is updated
         /\ \E data \in {IF stored[1].anomaly_score = None
                         THEN [stored[1] EXCEPT !.anomaly_score =
                                  Some(calculate_anomaly_score(machine[1], stored[1]))]
                         ELSE stored[1]} :
            \E ai \in {analyze_anomaly_with_ai(machine[1], data,
                                               data.anomaly_score[1], llm)} :
            \E alert \in {create_anomaly_alert(machine[1], data,
                                               data.anomaly_score[1], ai.value)} :
                /\ machine_data' = [machine_data EXCEPT ![machine_id] = data]
                /\ response' = analyze_response(machine_id, data, ai, alert)
         /\ UNCHANGED <<time_offset, lastGenerated, call>>

Init ==
    /\ ServiceIdle
    /\ call = NoCall

Next ==
    \/ \E machine_id \in RequestIds : get_machine(machine_id)
    \/ \E rnds \in [1..Len(service_get_all_machines) -> RandomDraws] :
           get_current_machine_data(rnds)
    \/ \E machine_id \in RequestIds, rnd \in RandomDraws :
           get_machine_data(machine_id, rnd)
    \/ \E machine_id \in RequestIds, llm \in LlmOutcomes :
           analyze_machine_anomaly(machine_id, llm)

Spec == Init /\ [][Next]_vars

-----------------------------------------------------------------------------
(* Properties of the pure functions, checked under SpecFn *)

IsCall(fn) == call.fn = fn

CallMachine == Machines[call.machine_id]

OutOfRange(value, range_obj) == value < range_obj.min \/ value > range_obj.max

\* C1: for every machine and every reading, in range or not,
\* calculate_anomaly_score returns a value in [0.0, 1.0].
C1_ScoreInUnitInterval ==
    IsCall("calculate_anomaly_score") => (0 <= call.result /\ call.result <= ScoreDen)

\* a scored reading with a metric so far out of range that 0.5 + excess / size
\* exceeds 1.0, and with another metric strictly inside its range
C1_Witness ==
    /\ IsCall("calculate_anomaly_score")
    /\ \E m \in MetricSet :
           LET r == CallMachine.normal_ranges[m] IN
           /\ OutOfRange(call.data[m], r)
           /\ 2 * Abs(2 * call.data[m] - (r.max + r.min)) > 4 * (r.max - r.min)
    /\ \E m \in MetricSet :
           LET r == CallMachine.normal_ranges[m] IN
           r.min < call.data[m] /\ call.data[m] < r.max
    /\ call.result > 0

C3_SeverityBuckets ==
    (IsCall("create_anomaly_alert") /\ call.result # None) =>
        LET score == call.anomaly_score
            severity == call.result[1].severity
        IN  /\ severity \in {"low", "medium", "high"}
            /\ severity = "high" <=> 10 * score >= 8 * ScoreDen
            /\ severity = "medium" <=>
                   (10 * score >= 6 * ScoreDen /\ 10 * score < 8 * ScoreDen)
            /\ severity = "low" <=>
                   (10 * score >= 3 * ScoreDen /\ 10 * score < 6 * ScoreDen)

\* an alert built for a score of exactly 0.6 is of medium severity
C3_Witness ==
    /\ IsCall("create_anomaly_alert")
    /\ 10 * call.anomaly_score = 6 * ScoreDen
    /\ call.result # None
    /\ call.result[1].severity = "medium"

\* the multipliers of section 4.2, in hundredths: a value is critical (warning)
\* when it is below low * min or above high * max; vibration has no lower limit
CriticalLimits ==
    [temperature |-> <<90, 110>>, pressure |-> <<80, 120>>, rpm |-> <<80, 120>>,
     power_consumption |-> <<70, 130>>]

WarningLimits ==
    [temperature |-> <<95, 105>>, pressure |-> <<90, 110>>, rpm |-> <<90, 110>>,
     power_consumption |-> <<85, 115>>]

Exceeds(limits, vibration_high, m) ==
    LET r == CallMachine.normal_ranges[m]
        v == call.data[m]
    IN  IF m = "vibration" THEN 100 * v > vibration_high * r.max
        ELSE 100 * v < limits[m][1] * r.min \/ 100 * v > limits[m][2] * r.max

IsCritical(m) == Exceeds(CriticalLimits, 130, m)
IsWarning(m) == Exceeds(WarningLimits, 110, m)

\* C4: the classifier returns CRITICAL whenever any critical condition holds
\* (even if warning conditions hold too), WARNING only when no critical condition
\* holds and some warning condition holds, NORMAL otherwise, and never OFFLINE.
C4_CriticalFirst ==
    IsCall("determine_status") =>
        /\ call.result \in {"normal", "warning", "critical"}
        /\ call.result = "critical" <=> \E m \in MetricSet : IsCritical(m)
        /\ call.result = "warning" <=>
               /\ ~ \E m \in MetricSet : IsCritical(m)
               /\ \E m \in MetricSet : IsWarning(m)
        /\ call.result = "normal" <=>
               ~ \E m \in MetricSet : IsCritical(m) \/ IsWarning(m)

\* a reading classified CRITICAL in which one metric meets a critical condition
\* and another one meets a warning condition only
C4_Witness ==
    /\ IsCall("determine_status")
    /\ call.result = "critical"
    /\ \E m \in MetricSet : IsCritical(m)
    /\ \E m \in MetricSet : IsWarning(m) /\ ~IsCritical(m)

Deviation(m) == calculate_deviation(call.data[m], CallMachine.normal_ranges[m])

MetricIndex(m) == CHOOSE i \in 1..Len(Metrics) : Metrics[i] = m

\* C9: in every alert the reported metric has the maximum deviation among the
\* five, it is the first such metric in the order temperature, pressure,
\* vibration, rpm, power_consumption, and the alert's value and expected range
\* are those of that metric.
C9_WorstMetricFirstOnTies ==
    (IsCall("create_anomaly_alert") /\ call.result # None) =>
        LET alert == call.result[1]
            r == CallMachine.normal_ranges[alert.metric]
        IN  /\ alert.metric \in MetricSet
            /\ \A m \in MetricSet : Deviation(m) <= Deviation(alert.metric)
            /\ \A m \in MetricSet :
                   Deviation(m) = Deviation(alert.metric) =>
                       MetricIndex(alert.metric) <= MetricIndex(m)
            /\ alert.value = call.data[alert.metric]
            /\ alert.expected_range = <<r.min, r.max>>

\* an alert whose metric is not the first of the five, ties with a later metric
\* for the largest deviation and leaves a smaller positive deviation behind
C9_Witness ==
    /\ IsCall("create_anomaly_alert")
    /\ call.result # None
    /\ call.result[1].metric # "temperature"
    /\ \E m \in MetricSet :
           /\ m # call.result[1].metric
           /\ Deviation(m) = Deviation(call.result[1].metric)
    /\ \E m \in MetricSet :
           0 < Deviation(m) /\ Deviation(m) < Deviation(call.result[1].metric)

\* the reading of section 8: temperature 40 against the range [60, 80], the
\* other four metrics at the centers of their ranges
C10_Reading ==
    /\ call.machine_id = "m1"
    /\ CallMachine.normal_ranges.temperature = Range(60, 80)
    /\ call.data.temperature = 40 * Unit
    /\ \A m \in MetricSet \ {"temperature"} :
           2 * call.data[m] =
               CallMachine.normal_ranges[m].min + CallMachine.normal_ranges[m].max

\* C10: for that reading the temperature metric score is 1.0, the overall score
\* is 0.2, no alert is produced for that score, and the classifier reports
\* CRITICAL.
C10_SingleExtremeIsDamped ==
    C10_Reading =>
        /\ IsCall("calculate_anomaly_score") => 5 * call.result = ScoreDen
        /\ IsCall("determine_status") => call.result = "critical"
        /\ (/\ IsCall("create_anomaly_alert")
            /\ call.anomaly_score = calculate_anomaly_score(CallMachine, call.data))
               => (5 * call.anomaly_score = ScoreDen /\ call.result = None)
        /\ (IsCall("calculate_anomaly_score") \/ IsCall("determine_status")
               \/ IsCall("create_anomaly_alert")) =>
               metric_score(call.data.temperature,
                            CallMachine.normal_ranges.temperature) = MetricDen

\* the alert builder was called with the scorer's result for that reading
C10_Witness ==
    /\ C10_Reading
    /\ IsCall("create_anomaly_alert")
    /\ 5 * call.anomaly_score = ScoreDen
    /\ call.result = None

-----------------------------------------------------------------------------
(* Properties of the service, checked under Spec *)

HandlersWithId == {"get_machine", "get_machine_data", "analyze"}

C5_StoreHoldsLastGenerated ==
    /\ DOMAIN machine_data \subseteq MachineIds
    /\ DOMAIN machine_data = DOMAIN lastGenerated
    /\ \A m \in DOMAIN machine_data :
           /\ machine_data[m] = lastGenerated[m]
           /\ machine_data[m].machine_id = m

\* an entry never disappears; an entry that changes is replaced by a reading
\* generated in this very step; a single-machine request touches no other entry
C5_UpdateReplaces ==
    /\ \A m \in DOMAIN machine_data :
           /\ m \in DOMAIN machine_data'
           /\ machine_data'[m] # machine_data[m] =>
                  /\ machine_data'[m].timestamp > time_offset
                  /\ machine_data'[m].timestamp <= time_offset'
    /\ response'.op = "get_machine_data" =>
           \A m \in MachineIds \ {response'.machine_id} :
               /\ m \in DOMAIN machine_data' <=> m \in DOMAIN machine_data
               /\ m \in DOMAIN machine_data => machine_data'[m] = machine_data[m]

\* C5: after any sequence of requests the latest-value store holds at most one
\* reading per machine, the one its most recent generation cycle produced: each
\* update replaces the prior value and leaves the other machines' entries alone.
C5_LatestValueStore ==
    []C5_StoreHoldsLastGenerated /\ [][C5_UpdateReplaces]_vars

\* three generation cycles over two machines: the reading of m1 was replaced by
\* the third cycle while m2 still holds the reading of the second
C5_Witness ==
    /\ DOMAIN machine_data = MachineIds
    /\ time_offset = 3
    /\ machine_data["m1"].timestamp = 3
    /\ machine_data["m2"].timestamp = 2
    /\ response.op = "get_machine_data"

C6_AnalyzeStep ==
    response'.op = "analyze" =>
        /\ time_offset' = time_offset
        /\ machine_data' = machine_data
        /\ (response'.machine_id \in MachineIds
                /\ response'.machine_id \notin DOMAIN machine_data) =>
               /\ response'.status = 404
               /\ response'.detail = "No current data available for machine"
        /\ response'.machine_id \in DOMAIN machine_data =>
               /\ response'.status = 200
               /\ Some(response'.anomaly_score) =
                      machine_data[response'.machine_id].anomaly_score

\* C6: analyze never regenerates data: it leaves the generator's counter and the
\* latest-value store unchanged, reports the score of the reading already stored
\* and fails with not-found when a configured machine has no reading yet.
C6_AnalyzeDoesNotRegenerate == [][C6_AnalyzeStep]_vars

\* analyze answered for a machine with a stored reading, after two generations
C6_Witness ==
    /\ response.op = "analyze"
    /\ response.status = 200
    /\ time_offset > 1
    /\ Some(response.anomaly_score) = machine_data[response.machine_id].anomaly_score

\* analyze got past its two not-found checks and the narrative call failed
NarrativeCallFailed ==
    /\ response.op = "analyze"
    /\ response.status # 404
    /\ response.llm_outcome \in LlmFailures

\* C7: when the narrative-service call fails during the analysis of a reading
\* whose score is >= 0.3, exactly one attempt is made, the narrative is the
\* fallback text embedding the score, and analyze still returns an alert carrying
\* that text; no error reaches the caller.
C7_NarrativeFailureFallsBack ==
    NarrativeCallFailed =>
        /\ response.status = 200
        /\ response.llm_calls = 1
        /\ 10 * response.anomaly_score >= 3 * ScoreDen
        /\ response.ai_analysis =
               Some([kind |-> "fallback", score |-> Format2f(response.anomaly_score)])
        /\ response.alert_created
        /\ response.alert # None
        /\ response.alert[1].ai_analysis = response.ai_analysis
        /\ response.alert[1].machine_id = response.machine_id

\* the narrative service returned a message without content and analyze
\* answered with an alert carrying the fallback text
C7_Witness ==
    /\ NarrativeCallFailed
    /\ response.llm_outcome = "null_content"
    /\ response.status = 200
    /\ response.alert # None
    /\ response.alert[1].ai_analysis # None
    /\ response.alert[1].ai_analysis[1].kind = "fallback"

C8_UnknownIdStep ==
    (response'.op \in HandlersWithId /\ response'.machine_id \notin MachineIds) =>
        /\ response'.status = 404
        /\ response'.detail = "Machine not found"
        /\ time_offset' = time_offset
        /\ machine_data' = machine_data

\* C8: a request naming a machine identifier that is not in the registry (get
\* machine, get machine data, analyze) ends in not-found and changes neither the
\* generator's counter nor the latest-value store.
C8_UnknownMachineNotFound == [][C8_UnknownIdStep]_vars

\* a data request for an unknown machine was refused while readings are stored
C8_Witness ==
    /\ response.op = "get_machine_data"
    /\ response.status = 404
    /\ response.machine_id \notin MachineIds
    /\ time_offset > 0
    /\ DOMAIN machine_data # {}

-----------------------------------------------------------------------------
(* The generator's anomaly-injection branch (data_generator.py, 34-58) *)

\* The readings the last data request generated, each with the machine's
\* ranges, the values returned, the counter value of its generation call and
\* the random draws of that call.
GeneratedReadings ==
    IF response.op = "get_machine_data" /\ response.status = 200
    THEN {[ranges |-> Machines[response.machine_id].normal_ranges,
           body |-> response.body, rnd |-> response.draws[1]]}
    ELSE IF response.op = "get_current_machine_data"
    THEN {[ranges |-> service_get_all_machines[i].normal_ranges,
           body |-> response.body[i], rnd |-> response.draws[i]] :
             i \in 1..Len(service_get_all_machines)}
    ELSE {}

\* the metric an anomaly type names
AnomalyMetric(type) == IF type = "power" THEN "power_consumption" ELSE type

\* the weight of the time factor in a metric's variation, in tenths
DriftWeight10 ==
    [temperature |-> 10, pressure |-> 5, vibration |-> 3, rpm |-> 2,
     power_consumption |-> 4]

\* the value a metric has when the injection branch leaves it alone
DriftValue(g, m) ==
    drifted(g.ranges[m], g.body.last_updated, DriftWeight10[m], g.rnd.noise_factor)

\* every range of the registry has min < max
RangesProper ==
    \A id \in MachineIds, m \in MetricSet :
        Machines[id].normal_ranges[m].min < Machines[id].normal_ranges[m].max

\* C11, first half: when the injection branch fired, the four metrics it did
\* not pick keep their drift-plus-noise values.
C11_OthersKeepDrift ==
    \A g \in GeneratedReadings :
        g.rnd.anomaly =>
            \A m \in MetricSet \ {AnomalyMetric(g.rnd.anomaly_type)} :
                g.body.data[m] = DriftValue(g, m)

\* C11: when the generator's anomaly-injection branch fires, exactly one of the
\* five metrics is overwritten, the other four keep their drift-plus-noise
\* values, and the overwritten value lies outside that metric's normal range
\* [min, max], for every machine whose ranges satisfy min < max.
C11_InjectedValueOutOfRange ==
    RangesProper =>
        \A g \in GeneratedReadings :
            g.rnd.anomaly =>
                /\ \A m \in MetricSet \ {AnomalyMetric(g.rnd.anomaly_type)} :
                       g.body.data[m] = DriftValue(g, m)
                /\ OutOfRange(g.body.data[AnomalyMetric(g.rnd.anomaly_type)],
                              g.ranges[AnomalyMetric(g.rnd.anomaly_type)])

\* the state that refutes C11: the low extreme of a range whose min is 0
C11_LowExtremeOfZeroMin ==
    \E g \in GeneratedReadings :
        /\ g.rnd.anomaly /\ g.rnd.anomaly_type = "temperature" /\ ~g.rnd.high
        /\ g.ranges.temperature.min = 0
        /\ g.body.data.temperature = 0

-----------------------------------------------------------------------------
(* The generator's drift counter (data_generator.py, 8-17) *)

\* the number of generation calls of the request that a response answers: one
\* per draw of the random source it records
GenerationCalls(r) ==
    IF r.op \in {"get_machine_data", "get_current_machine_data"} /\ r.status = 200
    THEN Len(r.draws)
    ELSE 0

\* the counter values the generation calls of the request behind r saw after
\* their increment, in call order
CounterValuesSeen(r) ==
    IF r.op = "get_machine_data" /\ r.status = 200 THEN <<r.body.last_updated>>
    ELSE IF r.op = "get_current_machine_data"
    THEN [i \in 1..Len(r.body) |-> r.body[i].last_updated]
    ELSE <<>>

C12_CounterStep ==
    /\ time_offset' = time_offset + GenerationCalls(response')
    /\ time_offset' >= time_offset
    /\ (response'.op = "get_machine_data" /\ response'.status = 200) =>
           GenerationCalls(response') = 1
    /\ response'.op = "get_current_machine_data" =>
           GenerationCalls(response') = Len(service_get_all_machines)
    /\ CounterValuesSeen(response') =
           [i \in 1..GenerationCalls(response') |-> time_offset + i]

\* C12: the generator's drift counter is one counter for all machines, starts
\* at 0 and advances by exactly 1 on every generation call and on nothing else
\* (one call per successful single-machine data request, one per configured
\* machine for an all-machines data request, none for any other request), so
\* it counts the generation calls made so far; it never decreases.
C12_CounterCountsGenerationCalls ==
    /\ time_offset = 0
    /\ [][C12_CounterStep]_vars

\* a single-machine data request followed by an all-machines one: three calls
C12_Witness ==
    /\ time_offset = 3
    /\ response.op = "get_current_machine_data"
    /\ CounterValuesSeen(response) = <<2, 3>>
    /\ response.body[2].machine_id = "m2"

-----------------------------------------------------------------------------
(* Stored readings are scored (api/machines.py, 27-34, 43-51, 81-83) *)

C13_StoredReadingsScored ==
    \A id \in DOMAIN machine_data :
        /\ id \in MachineIds
        /\ machine_data[id].machine_id = id
        /\ machine_data[id].anomaly_score # None
        /\ machine_data[id].anomaly_score =
               Some(calculate_anomaly_score(Machines[id], machine_data[id]))

\* a step of analyze finds the score of the stored reading set, so it does not
\* take the back-fill branch, and leaves the store as it was
C13_AnalyzeStep ==
    response'.op = "analyze" =>
        /\ response'.machine_id \in DOMAIN machine_data =>
               machine_data[response'.machine_id].anomaly_score # None
        /\ machine_data' = machine_data

\* C13: in every reachable state, whatever the order of the requests, every
\* reading held in the latest-value store belongs to a machine of the registry
\* and has its anomaly score set, equal to the scorer's result for that reading
\* and machine; so analyze never takes its score back-fill branch and never
\* changes a stored reading.
C13_StoreHoldsScoredReadings ==
    /\ []C13_StoredReadingsScored
    /\ [][C13_AnalyzeStep]_vars

\* both machines have a stored reading and analyze has just answered for one
C13_Witness ==
    /\ DOMAIN machine_data = MachineIds
    /\ response.op = "analyze"
    /\ response.status = 200
    /\ response.machine_id = "m2"
    /\ machine_data["m2"].anomaly_score = Some(response.anomaly_score)
    /\ machine_data["m1"].timestamp > machine_data["m2"].timestamp

-----------------------------------------------------------------------------
(* The alert's metric against the score (anomaly_detector.py, 97-148) *)

\* the alert builder was called with the scorer's result for its reading and
\* machine, and returned an alert
AlertFromOwnScore ==
    /\ IsCall("create_anomaly_alert")
    /\ call.anomaly_score = calculate_anomaly_score(CallMachine, call.data)
    /\ call.result # None

OnBound(value, range_obj) == value = range_obj.min \/ value = range_obj.max

\* C14: whenever create_anomaly_alert is called with the score that
\* calculate_anomaly_score gives for the same machine and reading and returns
\* an alert, the alert's metric is one whose value lies outside its normal
\* range: its deviation is greater than 0.
C14_AlertMetricOutOfRange ==
    AlertFromOwnScore =>
        /\ OutOfRange(call.result[1].value,
                      CallMachine.normal_ranges[call.result[1].metric])
        /\ Deviation(call.result[1].metric) > 0

\* where C14 fails: only for a reading with every metric on a bound of its range
C14_InRangeAlertOnlyOnBounds ==
    (AlertFromOwnScore /\ Deviation(call.result[1].metric) = 0) =>
        /\ \A m \in MetricSet : OnBound(call.data[m], CallMachine.normal_ranges[m])
        /\ 10 * call.anomaly_score = 3 * ScoreDen
        /\ call.result[1].metric = "temperature"
        /\ call.result[1].severity = "low"

\* the state that refutes C14: every metric on a bound, the score exactly 0.3
\* and an alert about the temperature, which is in range
C14_AlertForReadingOnBounds ==
    /\ AlertFromOwnScore
    /\ \A m \in MetricSet : call.data[m] = CallMachine.normal_ranges[m].min
    /\ call.result[1].metric = "temperature"
    /\ ~OutOfRange(call.result[1].value, CallMachine.normal_ranges.temperature)

-----------------------------------------------------------------------------
(* The status of a reading with an injected value (data_generator.py, 34-61) *)

\* C15: every reading the generator returns after its anomaly-injection branch
\* fired has status CRITICAL, whichever metric and whichever of the low and
\* high extreme values was chosen, for every machine whose ranges satisfy
\* min < max.
C15_InjectedReadingIsCritical ==
    RangesProper =>
        \A g \in GeneratedReadings : g.rnd.anomaly => g.body.status = "critical"

\* where C15 fails: only for the low extreme of a range whose min is 0
C15_NotCriticalOnlyForZeroMin ==
    \A g \in GeneratedReadings :
        (g.rnd.anomaly /\ g.body.status # "critical") =>
            /\ ~g.rnd.high
            /\ g.ranges[AnomalyMetric(g.rnd.anomaly_type)].min = 0
            /\ g.body.data[AnomalyMetric(g.rnd.anomaly_type)] = 0

\* the state that refutes C15: an injected reading whose status is normal
C15_InjectedReadingNormal ==
    \E g \in GeneratedReadings :
        /\ g.rnd.anomaly /\ ~g.rnd.high
        /\ g.ranges[AnomalyMetric(g.rnd.anomaly_type)].min
               < g.ranges[AnomalyMetric(g.rnd.anomaly_type)].max
        /\ g.body.status = "normal"

=============================================================================
